---- MODULE Spec2Model ----
(***************************************************************************)
(* A model of cpu (src/cpu.go): a thin layer around ssh(1) that runs a     *)
(* command on a remote machine under the directory that corresponds to    *)
(* the local working directory.                                           *)
(*                                                                         *)
(* Go strings are TLA+ strings; TLC evaluates Len, \o and SubSeq on them.  *)
(* Go slices of strings are sequences of strings.                         *)
(***************************************************************************)
EXTENDS Integers, Sequences, FiniteSets, TLC

VARIABLES
    pc,         \* position of the single thread: main, rcpu, start, wait, done
    remote,     \* *remote: flag -r, default $CPU_REMOTE
    command,    \* flag.Args()
    shell,      \* *shell: flag -s, default $SHELL
    verbose,    \* *verbose: flag -v
    environ,    \* os.Environ()
    sshArgsEnv, \* os.Getenv("CPU_SSH_ARGS")
    tty,        \* isatty of the three standard streams
    usr,        \* what user.Current() returns: [err, HomeDir]
    wd,         \* what os.Getwd() returns ("" when it fails)
    login,      \* main's login
    path,       \* main's path, then rcpu's path
    fullArgs,   \* rcpu's fullArgs: the argument vector of ssh
    child,      \* the ssh child: [state |-> ..., code |-> ...]
    spawns,     \* calls of cmd.Start so far
    waits,      \* calls of cmd.Wait so far
    status,     \* <<exit status>> of this process, <<>> while it runs
    stderr,     \* what this process wrote to standard error, as tags
    usage,      \* whether flag.Usage() was called
    call,       \* arguments of a function applied on its own
    ret         \* <<its result>>, <<>> before the call

inputs == <<remote, command, shell, verbose, environ, sshArgsEnv, tty, usr, wd>>
locals == <<login, path, fullArgs>>
proc == <<child, spawns, waits>>
outcome == <<status, stderr, usage>>
harness == <<call, ret>>
vars == <<pc, inputs, locals, proc, outcome, harness>>

None == [none |-> TRUE]

EX_USAGE == 64
EX_CMDNFOUND == 127

(***************************************************************************)
(* Library functions the program calls, as the Go library computes them.   *)
(***************************************************************************)

\* s[i], 1-based
Ch(s, i) == SubSeq(s, i, i)

\* s[i:], 0-based as in Go
From(s, i) == SubSeq(s, i + 1, Len(s))

\* strings.HasPrefix
HasPrefix(s, prefix) ==
    Len(s) >= Len(prefix) /\ SubSeq(s, 1, Len(prefix)) = prefix

\* strings.Index: the 0-based index of the first instance of substr, or -1
Index(s, substr) ==
    LET hits == {i \in 0..Len(s) : HasPrefix(From(s, i), substr)}
    IN  IF hits = {} THEN -1
        ELSE CHOOSE i \in hits : \A j \in hits : i <= j

\* strings.SplitN(s, sep, 2): at most two substrings, split at the first sep
SplitN2(s, sep) ==
    LET i == Index(s, sep)
    IN  IF i < 0 THEN <<s>>
        ELSE <<SubSeq(s, 1, i), From(s, i + Len(sep))>>

\* strings.Join
RECURSIVE Join(_, _)
Join(elems, sep) ==
    IF elems = <<>> THEN ""
    ELSE IF Len(elems) = 1 THEN elems[1]
    ELSE elems[1] \o sep \o Join(Tail(elems), sep)

\* unicode.IsSpace, on the characters the model uses
IsSpace(c) == c \in {" ", "\t", "\n"}

\* strings.Fields: s split around each run of white space; cur is the
\* field being read, "" between fields
RECURSIVE FieldsFrom(_, _, _)
FieldsFrom(s, i, cur) ==
    IF i > Len(s) THEN (IF cur = "" THEN <<>> ELSE <<cur>>)
    ELSE IF IsSpace(Ch(s, i))
         THEN (IF cur = "" THEN <<>> ELSE <<cur>>) \o FieldsFrom(s, i + 1, "")
         ELSE FieldsFrom(s, i + 1, cur \o Ch(s, i))

Fields(s) == FieldsFrom(s, 1, "")

\* strconv.Quote on printable ASCII: double quotes around s, with a
\* backslash before each double quote and each backslash
RECURSIVE QuoteBody(_)
QuoteBody(s) ==
    IF s = "" THEN ""
    ELSE LET c == Ch(s, 1)
         IN  (IF c = "\"" THEN "\\\""
              ELSE IF c = "\\" THEN "\\\\"
              ELSE c) \o QuoteBody(From(s, 1))

Quote(s) == "\"" \o QuoteBody(s) \o "\""

\* path.Base: the last element of p, trailing slashes removed
RECURSIVE StripSlashes(_)
StripSlashes(p) ==
    IF Len(p) > 0 /\ Ch(p, Len(p)) = "/"
    THEN StripSlashes(SubSeq(p, 1, Len(p) - 1))
    ELSE p

LastSlash(p) ==
    LET hits == {i \in 0..(Len(p) - 1) : Ch(p, i + 1) = "/"}
    IN  IF hits = {} THEN -1
        ELSE CHOOSE i \in hits : \A j \in hits : j <= i

Base(p) ==
    IF p = "" THEN "."
    ELSE LET q == StripSlashes(p)
             r == IF LastSlash(q) >= 0 THEN From(q, LastSlash(q) + 1) ELSE q
         IN  IF r = "" THEN "/" ELSE r

\* os.Exit(code): the status the parent sees is the low eight bits
ExitStatus(code) == code % 256

(***************************************************************************)
(* The program's functions.                                                *)
(***************************************************************************)

makeEnvironment(environ_) ==
    LET RECURSIVE Scan(_, _)
        Scan(env, i) ==
            IF i > Len(environ_) THEN env
            ELSE IF HasPrefix(environ_[i], "TERM=") \/ HasPrefix(environ_[i], "PAGER=")
                 THEN Scan(Append(env, environ_[i]), i + 1)
                 ELSE Scan(env, i + 1)
    IN  \* make([]string, 2): two elements, each the empty string
        Join(Scan(<<"", "">>, 1), " ")

makeShellWrapper(shell_, cmd) ==
    IF Base(shell_) = "bash"
    THEN "bash -ci " \o Quote(cmd)
    ELSE Quote(cmd)

makeRemoteCmd(cwd, args, environ_, shell_) ==
    LET cmd == Join(args, " ")
        env == makeEnvironment(environ_)
        wrapper == makeShellWrapper(shell_, cmd)
    IN  "{ cd " \o cwd \o " && " \o env \o " " \o wrapper \o "; }"
\* policyFlags with the default flag kept in front of the flags of
\* CPU_SSH_ARGS
policyFlagsKeepsDefault(sshArgsEnv_) ==
    <<"-o LogLevel=QUIET">> \o Fields(sshArgsEnv_)

\* the flags makeSshArgs takes from CPU_SSH_ARGS, or its default
policyFlags(sshArgsEnv_) ==
    IF sshArgsEnv_ = ""
    THEN <<"-o LogLevel=QUIET">>
    ELSE Fields(sshArgsEnv_)
\* ttyFlags with && in place of ||
ttyFlagsAll(tty_) ==
    IF tty_.stdout /\ tty_.stdin /\ tty_.stderr
    THEN <<"-tt">>
    ELSE <<"-e", "none", "-T">>

\* the flags makeSshArgs derives from the three isatty results
ttyFlags(tty_) ==
    IF tty_.stdout \/ tty_.stdin \/ tty_.stderr
    THEN <<"-tt">>
    ELSE <<"-e", "none", "-T">>

makeSshArgs(login_, sshArgsEnv_, tty_) ==
    Append(policyFlags(sshArgsEnv_) \o ttyFlags(tty_), login_)
\* relativizeHomeDir with strings.Index(...) >= 0 in place of == 0: the
\* home directory found anywhere in the path
relativizeHomeDirAnywhere(path_, usr_) ==
    IF usr_.err THEN path_
    ELSE IF Index(path_, usr_.HomeDir) >= 0
         THEN "~" \o From(path_, Len(usr_.HomeDir))
         ELSE path_

relativizeHomeDir(path_, usr_) ==
    IF usr_.err THEN path_
    ELSE IF Index(path_, usr_.HomeDir) = 0
         THEN "~" \o From(path_, Len(usr_.HomeDir))
         ELSE path_
\* splitLoginPath with strings.Split in place of strings.SplitN(..., 2):
\* the path ends at the second ':'
splitLoginPathEveryColon(remote_, wd_) ==
    LET ss == SplitN2(remote_, ":")
    IN  IF Len(ss) = 1
        THEN [login |-> ss[1], path |-> wd_]
        ELSE [login |-> ss[1], path |-> SplitN2(ss[2], ":")[1]]

splitLoginPath(remote_, wd_) ==
    LET ss == SplitN2(remote_, ":")
    IN  IF Len(ss) = 1
        THEN [login |-> ss[1], path |-> wd_]
        ELSE [login |-> ss[1], path |-> ss[2]]

\* rcpu, up to the construction of the command: the argument vector of ssh
rcpuArgs(login_, path_, args, sshArgsEnv_, tty_, usr_, environ_, shell_) ==
    Append(makeSshArgs(login_, sshArgsEnv_, tty_),
           makeRemoteCmd(relativizeHomeDir(path_, usr_), args, environ_, shell_))

\* what rcpu logs up to cmd.Start
rcpuLog(usr_, shell_, verbose_) ==
    (IF usr_.err THEN <<"user.Current()">> ELSE <<>>)
    \o (IF verbose_ /\ Base(shell_) # "bash" THEN <<"unknown shell">> ELSE <<>>)
    \o (IF verbose_ THEN <<"cmd">> ELSE <<>>)

(***************************************************************************)
(* The process: main, rcpu, and the ssh child it starts and waits for.     *)
(***************************************************************************)

\* exit statuses a child can end with when it exits normally
ChildCodes == 0..255

\* ProcessState.ExitCode(): the exit code of an exited process, -1 of a
\* process a signal ended
ExitCode(c) == IF c.state = "exited" THEN c.code ELSE -1

NoChild == [state |-> "none", code |-> 0]

\* exit(code, msg): the message on standard error, the usage text for
\* EX_USAGE, then os.Exit(code)
exit(code, msg) ==
    /\ stderr' = Append(stderr, msg)
    /\ usage' = (usage \/ code = EX_USAGE)
    /\ status' = <<ExitStatus(code)>>
    /\ pc' = "done"

\* main: no remote machine given
MainNoRemote ==
    /\ pc = "main"
    /\ remote = ""
    /\ exit(EX_USAGE, "missing remote machine")
    /\ UNCHANGED <<inputs, locals, proc, harness>>
\* MainNoCommand without the test of len(command): main goes on to rcpu
MainNoCommandUnchecked ==
    /\ pc = "main"
    /\ remote # ""
    /\ command = <<>>
    /\ login' = splitLoginPath(remote, wd).login
    /\ path' = splitLoginPath(remote, wd).path
    /\ pc' = "rcpu"
    /\ UNCHANGED <<inputs, fullArgs, proc, outcome, harness>>

\* main: a remote machine but no command given
MainNoCommand ==
    /\ pc = "main"
    /\ remote # ""
    /\ command = <<>>
    /\ exit(EX_USAGE, "missing command")
    /\ UNCHANGED <<inputs, locals, proc, harness>>

\* main: login, path := splitLoginPath(*remote), then the call of rcpu
MainSplit ==
    /\ pc = "main"
    /\ remote # ""
    /\ command # <<>>
    /\ login' = splitLoginPath(remote, wd).login
    /\ path' = splitLoginPath(remote, wd).path
    /\ pc' = "rcpu"
    /\ UNCHANGED <<inputs, fullArgs, proc, outcome, harness>>

\* rcpu up to cmd.Start: the path, the argument vector, the log lines
RcpuBuild ==
    /\ pc = "rcpu"
    /\ path' = relativizeHomeDir(path, usr)
    /\ fullArgs' = rcpuArgs(login, path, command, sshArgsEnv, tty, usr, environ, shell)
    /\ stderr' = stderr \o rcpuLog(usr, shell, verbose)
    /\ pc' = "start"
    /\ UNCHANGED <<inputs, login, proc, status, usage, harness>>
\* StartFail with the error only reported: rcpu goes on to cmd.Wait()
StartFailGoesOn ==
    /\ pc = "start"
    /\ spawns' = spawns + 1
    /\ child' = [state |-> "unstarted", code |-> 0]
    /\ stderr' = Append(stderr, "cmd.Start error")
    /\ pc' = "wait"
    /\ UNCHANGED <<inputs, locals, waits, status, usage, harness>>

\* cmd.Start() returns an error: exit(EX_CMDNFOUND, err.Error())
StartFail ==
    /\ pc = "start"
    /\ spawns' = spawns + 1
    /\ child' = [state |-> "unstarted", code |-> 0]
    /\ exit(EX_CMDNFOUND, "cmd.Start error")
    /\ UNCHANGED <<inputs, locals, waits, harness>>

\* cmd.Start() starts ssh
StartOk ==
    /\ pc = "start"
    /\ spawns' = spawns + 1
    /\ child' = [state |-> "running", code |-> 0]
    /\ pc' = "wait"
    /\ UNCHANGED <<inputs, locals, waits, outcome, harness>>

\* cmd.Wait() returns nil, the child has exited with 0: rcpu returns, main
\* returns
WaitNil ==
    /\ pc = "wait"
    /\ waits' = waits + 1
    /\ child' = [state |-> "exited", code |-> 0]
    /\ status' = <<0>>
    /\ pc' = "done"
    /\ UNCHANGED <<inputs, locals, spawns, stderr, usage, harness>>
\* WaitExitError with os.Exit(1) in place of os.Exit(exiterr.ExitCode())
WaitExitErrorExitsOne ==
    /\ pc = "wait"
    /\ waits' = waits + 1
    /\ \E c \in {[state |-> "exited", code |-> n] : n \in ChildCodes \ {0}}
                \cup {[state |-> "signaled", code |-> 0]} :
          /\ child' = c
          /\ status' = <<ExitStatus(1)>>
    /\ pc' = "done"
    /\ UNCHANGED <<inputs, locals, spawns, stderr, usage, harness>>

\* cmd.Wait() returns an *exec.ExitError, the child has exited with a code
\* other than 0 or a signal has ended it: os.Exit(exiterr.ExitCode())
WaitExitError ==
    /\ pc = "wait"
    /\ waits' = waits + 1
    /\ \E c \in {[state |-> "exited", code |-> n] : n \in ChildCodes \ {0}}
                \cup {[state |-> "signaled", code |-> 0]} :
          /\ child' = c
          /\ status' = <<ExitStatus(ExitCode(c))>>
    /\ pc' = "done"
    /\ UNCHANGED <<inputs, locals, spawns, stderr, usage, harness>>

\* cmd.Wait() returns another error, the wait itself has failed:
\* log.Fatalf("cmd.Wait: %v", err), which exits with 1
WaitFatal ==
    /\ pc = "wait"
    /\ waits' = waits + 1
    /\ child' = [state |-> "unknown", code |-> 0]
    /\ stderr' = Append(stderr, "cmd.Wait")
    /\ status' = <<ExitStatus(1)>>
    /\ pc' = "done"
    /\ UNCHANGED <<inputs, locals, spawns, usage, harness>>

(***************************************************************************)
(* The runs of the process.                                                *)
(***************************************************************************)

TtyStates == [stdin : BOOLEAN, stdout : BOOLEAN, stderr : BOOLEAN]
NoTty == [stdin |-> FALSE, stdout |-> FALSE, stderr |-> FALSE]

Remotes == {"", "box", "box:", "box:/home/alice/proj", "u@box:/tmp:x"}
Commands == {<<>>, <<"make">>, <<"echo", "\"hi\"">>}
Shells == {"/bin/zsh", "/usr/bin/bash"}
Environs == {<<"TERM=xterm">>, <<"PATH=/bin", "PAGER=less", "TERM=vt100">>}
SshArgsEnvs == {"", "-v  -p 22"}
Users == {[err |-> TRUE, HomeDir |-> ""], [err |-> FALSE, HomeDir |-> "/home/alice"]}

Init ==
    /\ pc = "main"
    /\ remote \in Remotes
    /\ command \in Commands
    /\ shell \in Shells
    /\ verbose \in BOOLEAN
    /\ environ \in Environs
    /\ sshArgsEnv \in SshArgsEnvs
    /\ tty \in {NoTty, [NoTty EXCEPT !.stdin = TRUE]}
    /\ usr \in Users
    /\ wd = "/home/alice/src"
    /\ login = ""
    /\ path = ""
    /\ fullArgs = <<>>
    /\ child = NoChild
    /\ spawns = 0
    /\ waits = 0
    /\ status = <<>>
    /\ stderr = <<>>
    /\ usage = FALSE
    /\ call = None
    /\ ret = <<>>

Next ==
    \/ MainNoRemote
    \/ MainNoCommand
    \/ MainSplit
    \/ RcpuBuild
    \/ StartFail
    \/ StartOk
    \/ WaitNil
    \/ WaitExitError
    \/ WaitFatal

Spec == Init /\ [][Next]_vars

(***************************************************************************)
(* The functions applied on their own, to arguments drawn from bounded     *)
(* sets: call holds the arguments, ret the result.                         *)
(***************************************************************************)

MaxRemoteLen == 4
MaxPathLen == 4
MaxHomeLen == 2
MaxEnviron == 3
MaxSshArgsLen == 4

\* the strings over alphabet of length n, and of length at most n
RECURSIVE StrsOfLen(_, _)
StrsOfLen(alphabet, n) ==
    IF n = 0 THEN {""}
    ELSE {s \o c : s \in StrsOfLen(alphabet, n - 1), c \in alphabet}

Strs(alphabet, n) == UNION {StrsOfLen(alphabet, k) : k \in 0..n}

\* the sequences over S of length at most n
SeqsUpTo(S, n) == UNION {[1..k -> S] : k \in 0..n}

\* the process is not running: only the function under call runs
Idle ==
    /\ pc = "fn"
    /\ remote = ""
    /\ command = <<>>
    /\ shell = ""
    /\ verbose = FALSE
    /\ environ = <<>>
    /\ sshArgsEnv = ""
    /\ tty = NoTty
    /\ usr = [err |-> TRUE, HomeDir |-> ""]
    /\ wd = ""
    /\ login = ""
    /\ path = ""
    /\ fullArgs = <<>>
    /\ child = NoChild
    /\ spawns = 0
    /\ waits = 0
    /\ status = <<>>
    /\ stderr = <<>>
    /\ usage = FALSE
    /\ ret = <<>>

Return(v) ==
    /\ pc = "fn"
    /\ ret = <<>>
    /\ ret' = <<v>>
    /\ UNCHANGED <<pc, inputs, locals, proc, outcome, call>>

\* splitLoginPath(remote), with os.Getwd() returning wd; main calls it with
\* a non-empty remote
SplitCalls ==
    [remote : Strs({"h", ":", "/"}, MaxRemoteLen) \ {""}, wd : {"", "/w"}]

CallSplitLoginPath == Return(splitLoginPath(call.remote, call.wd))

InitSplit == Idle /\ call \in SplitCalls

NextSplit == CallSplitLoginPath

SpecSplit == InitSplit /\ [][NextSplit]_vars

\* relativizeHomeDir(path), with user.Current() returning usr
HomeCalls ==
    [path : Strs({"/", "a", "~"}, MaxPathLen),
     usr : {[err |-> TRUE, HomeDir |-> ""]}
           \cup {[err |-> FALSE, HomeDir |-> h] : h \in Strs({"/", "a", "~"}, MaxHomeLen)}]

CallRelativizeHomeDir == Return(relativizeHomeDir(call.path, call.usr))

InitHome == Idle /\ call \in HomeCalls

NextHome == CallRelativizeHomeDir

SpecHome == InitHome /\ [][NextHome]_vars

\* makeEnvironment(environ)
EnvEntries == {"TERM=x", "PAGER=l", "PATH=b", "TERMINFO=y", "TERM", ""}

EnvCalls == [environ : SeqsUpTo(EnvEntries, MaxEnviron)]

CallMakeEnvironment == Return(makeEnvironment(call.environ))

InitEnv == Idle /\ call \in EnvCalls

NextEnv == CallMakeEnvironment

SpecEnv == InitEnv /\ [][NextEnv]_vars

\* rcpu's argument vector, for every CPU_SSH_ARGS and every isatty result
ArgsCalls ==
    [login : {"box", "u@h"},
     path : {"/home/alice/proj"},
     command : {<<"make", "-k">>},
     sshArgsEnv : Strs({" ", "-", "t"}, MaxSshArgsLen) \cup {"-v\t-q"},
     tty : TtyStates,
     usr : {[err |-> FALSE, HomeDir |-> "/home/alice"]},
     environ : {<<"TERM=xterm">>},
     shell : {"/bin/sh"}]

CallRcpuArgs ==
    Return(rcpuArgs(call.login, call.path, call.command, call.sshArgsEnv,
                    call.tty, call.usr, call.environ, call.shell))

InitArgs == Idle /\ call \in ArgsCalls

NextArgs == CallRcpuArgs

SpecArgs == InitArgs /\ [][NextArgs]_vars

(***************************************************************************)
(* Properties.                                                             *)
(***************************************************************************)

\* the elements of a sequence
Range(seq) == {seq[i] : i \in 1..Len(seq)}

\* C1: when the child was spawned and exits normally with code c, this
\* process ends with exit status c, for every c in 0..255.
C1_ExitCodePropagated ==
    (pc = "done" /\ child.state = "exited")
        => (spawns = 1 /\ child.code \in 0..255 /\ status = <<child.code>>)

C1_Witness ==
    pc = "done" /\ child.state = "exited" /\ child.code = 2 /\ status = <<2>>

\* C2: when cmd.Start fails, the process reports the failure and ends with
\* exit status 127, and cmd.Wait is never called.
C2_SpawnFailure ==
    child.state = "unstarted"
        => /\ pc = "done"
           /\ status = <<127>>
           /\ waits = 0
           /\ "cmd.Start error" \in Range(stderr)

C2_Witness ==
    child.state = "unstarted" /\ spawns = 1 /\ status = <<127>>

\* C3: when a signal ends the child, the process writes a diagnostic and
\* ends with a non-zero exit status that no normal exit of the child gives.
C3_SignaledIsDistinct ==
    (pc = "done" /\ child.state = "signaled")
        => /\ "cmd.Wait" \in Range(stderr)
           /\ status # <<0>>
           /\ \A c \in ChildCodes : status # <<c>>

\* C4: the child is spawned at most once; a process that has ended has
\* spawned exactly once when the target and the command are both non-empty,
\* and otherwise has ended with 64 without a spawn.
C4_SpawnOnce ==
    /\ spawns <= 1
    /\ pc = "done" =>
          IF remote # "" /\ command # <<>>
          THEN spawns = 1
          ELSE spawns = 0 /\ child = NoChild /\ status = <<64>>

C4_Witness ==
    pc = "done" /\ spawns = 1 /\ waits = 1 /\ child.state = "signaled"

\* C7: for the target box:/home/alice/proj, the home directory /home/alice,
\* TERM=xterm the only forwarded variable and a shell other than bash, the
\* remote command is "{ cd ~/proj && TERM=xterm <command joined by spaces>; }"
\* and the argument vector ends with the login and that string.
C7_EndToEnd ==
    (/\ pc = "start"
     /\ remote = "box:/home/alice/proj"
     /\ usr = [err |-> FALSE, HomeDir |-> "/home/alice"]
     /\ environ = <<"TERM=xterm">>
     /\ Base(shell) # "bash")
        => /\ Len(fullArgs) >= 2
           /\ fullArgs[Len(fullArgs)] =
                 "{ cd ~/proj && TERM=xterm " \o Join(command, " ") \o "; }"
           /\ fullArgs[Len(fullArgs) - 1] = "box"

\* the maximal runs of s without white space, as pairs of positions
Runs(s) ==
    {r \in (1..Len(s)) \X (1..Len(s)) :
        /\ r[1] <= r[2]
        /\ \A i \in r[1]..r[2] : ~IsSpace(SubSeq(s, i, i))
        /\ r[1] = 1 \/ IsSpace(SubSeq(s, r[1] - 1, r[1] - 1))
        /\ r[2] = Len(s) \/ IsSpace(SubSeq(s, r[2] + 1, r[2] + 1))}

\* tokens are the runs of s, in the order of s
IsTokens(tokens, s) ==
    /\ Len(tokens) = Cardinality(Runs(s))
    /\ \A r \in Runs(s) :
          tokens[1 + Cardinality({q \in Runs(s) : q[1] < r[1]})]
              = SubSeq(s, r[1], r[2])

\* C5: the flags that follow the policy flags are -tt if and only if one of
\* the three streams is a terminal, and -e none -T if and only if none is;
\* they are always one of the two and never both.
C5_TtyFlags ==
    ret # <<>> =>
        LET args == ret[1]
            k == IF call.sshArgsEnv = "" THEN 1
                 ELSE Cardinality(Runs(call.sshArgsEnv))
            flags == SubSeq(args, k + 1, Len(args) - 2)
            any == call.tty.stdin \/ call.tty.stdout \/ call.tty.stderr
        IN  /\ any <=> flags = <<"-tt">>
            /\ ~any <=> flags = <<"-e", "none", "-T">>
            /\ flags \in {<<"-tt">>, <<"-e", "none", "-T">>}

C5_Witness ==
    /\ ret # <<>>
    /\ call.tty = [stdin |-> FALSE, stdout |-> FALSE, stderr |-> TRUE]
    /\ call.sshArgsEnv = "-tt"
    /\ SubSeq(ret[1], 1, 3) = <<"-tt", "-tt", call.login>>

\* C6: the argument vector is the policy flags, the TTY flags, the login and
\* the remote command, in this order; the policy flags are the fields of
\* CPU_SSH_ARGS when it is non-empty and the one default flag otherwise.
C6_ArgOrder ==
    ret # <<>> =>
        LET args == ret[1]
            n == Len(args)
        IN  /\ n >= 3
            /\ args[n] = makeRemoteCmd(relativizeHomeDir(call.path, call.usr),
                                       call.command, call.environ, call.shell)
            /\ args[n - 1] = call.login
            /\ \E k \in 0..(n - 3) :
                  /\ SubSeq(args, k + 1, n - 2)
                        \in {<<"-tt">>, <<"-e", "none", "-T">>}
                  /\ IF call.sshArgsEnv = ""
                     THEN SubSeq(args, 1, k) = <<"-o LogLevel=QUIET">>
                     ELSE IsTokens(SubSeq(args, 1, k), call.sshArgsEnv)

C6_Witness ==
    /\ ret # <<>>
    /\ call.sshArgsEnv = " -t-"
    /\ call.tty = NoTty
    /\ SubSeq(ret[1], 1, 5) = <<"-t-", "-e", "none", "-T", call.login>>
    /\ Len(ret[1]) = 6

\* kv is one of the variables cpu forwards
Forwarded(kv) ==
    \E key \in {"TERM=", "PAGER="} :
        Len(kv) >= Len(key) /\ SubSeq(kv, 1, Len(key)) = key

\* C8: the environment fragment is the entries that start with TERM= or
\* PAGER=, in their order, joined by single spaces, and nothing else.
C8_EnvFragment ==
    ret # <<>> => ret[1] = Join(SelectSeq(call.environ, Forwarded), " ")

\* p is h followed by some rest
StartsWith(p, h) ==
    \E n \in 0..Len(p) : p = h \o SubSeq(p, n + 1, Len(p))

\* the result of relativizeHomeDir is ~ and the path without the home
\* directory when the path starts with it, and the path otherwise
MapsHome ==
    LET p == call.path
        h == call.usr.HomeDir
    IN  IF ~call.usr.err /\ StartsWith(p, h)
        THEN ret[1] = "~" \o SubSeq(p, Len(h) + 1, Len(p))
        ELSE ret[1] = p

\* C9, as claimed: MapsHome, and relativizeHomeDir maps every mapped path
\* to itself.
C9_Idempotent ==
    ret # <<>> => (MapsHome /\ relativizeHomeDir(ret[1], call.usr) = ret[1])

\* C9, amended: MapsHome, and relativizeHomeDir maps a mapped path to itself
\* when the lookup fails or the home directory is not empty and does not
\* start with ~.
C9_IdempotentForHomes ==
    ret # <<>> =>
        /\ MapsHome
        /\ (call.usr.err
            \/ (call.usr.HomeDir # "" /\ SubSeq(call.usr.HomeDir, 1, 1) # "~"))
              => relativizeHomeDir(ret[1], call.usr) = ret[1]

C9_Witness ==
    /\ ret # <<>>
    /\ call.usr = [err |-> FALSE, HomeDir |-> "/a"]
    /\ call.path = "/a/a"
    /\ ret[1] = "~/a"

NoColon(s) == \A i \in 1..Len(s) : SubSeq(s, i, i) # ":"

\* the result of splitLoginPath: without a ':' the target and the working
\* directory, with one the text before the first ':' and the text after it
SplitsAtFirstColon ==
    LET r == call.remote
    IN  IF NoColon(r)
        THEN ret[1].login = r /\ ret[1].path = call.wd
        ELSE NoColon(ret[1].login) /\ r = ret[1].login \o ":" \o ret[1].path

\* C10, as claimed: SplitsAtFirstColon, and the path is never empty (given
\* that os.Getwd() has found the working directory).
C10_PathNeverEmpty ==
    (ret # <<>> /\ call.wd # "") => (SplitsAtFirstColon /\ ret[1].path # "")

\* C10, amended: SplitsAtFirstColon, and the path is empty exactly when
\* nothing follows the first ':' or, without a ':', when os.Getwd() gives no
\* directory.
C10_Split ==
    ret # <<>> =>
        /\ SplitsAtFirstColon
        /\ ret[1].path = "" <=>
              IF NoColon(call.remote)
              THEN call.wd = ""
              ELSE call.remote = ret[1].login \o ":"

C10_Witness ==
    /\ ret # <<>>
    /\ call.remote = "h:/:"
    /\ ret[1] = [login |-> "h", path |-> "/:"]

====
